---- MODULE Spec2Model ----
(***************************************************************************)
(* scarb-eject: translation of a Scarb metadata snapshot into the content  *)
(* of cairo_project.toml (src/src/main.rs, src/src/utils.rs).              *)
(*                                                                         *)
(* Option<T> values are sequences of length at most one: <<>> is None and  *)
(* <<v>> is Some(v).  Vec<T> values are sequences.  An OrderedHashMap is a *)
(* sequence of <<key, value>> pairs in insertion order; the dependency map *)
(* of a CrateSettings is a function from crate names to DependencySettings.*)
(***************************************************************************)
EXTENDS Integers, Sequences, FiniteSets, TLC

VARIABLES
    metadata,            \* scarb_metadata::Metadata read at main.rs:35
    main_package,        \* the package chosen by match_one at main.rs:39
    output_arg,          \* args.output : Option<PathBuf>
    pc,                  \* position inside main
    compilation_unit,    \* Option<CompilationUnitMetadata> chosen at main.rs:41
    project_config,      \* Option<ProjectConfigContent> built at main.rs:57
    cairo_project_toml,  \* Option<String> rendered at main.rs:59
    stdout,              \* what println! has written
    files,               \* the file system: sequence of <<path, content>>
    error                \* Option<anyhow::Error> returned by main

vars == <<metadata, main_package, output_arg, pc, compilation_unit,
          project_config, cairo_project_toml, stdout, files, error>>

----------------------------------------------------------------------------
(* Bounds of the model *)

MaxUnits == 2
MaxComponents == 2
MaxDeps == 2
MaxPackages == 2
MaxFeatures == 1
MaxCfg == 1

----------------------------------------------------------------------------
(* Option and collection helpers *)

None == <<>>
Some(v) == <<v>>
IsSome(o) == o /= <<>>
Unwrap(o) == o[1]

SeqsUpTo(S, n) == UNION {[1..k -> S] : k \in 0..n}

Range(s) == {s[i] : i \in 1..Len(s)}

\* Iterator::find : the first element of s among those at the positions
\* `hits` (the positions satisfying the predicate), or None
Find(s, hits) ==
    IF hits = {} THEN None
    ELSE Some(s[CHOOSE i \in hits : \A j \in hits : i <= j])

\* OrderedHashMap::insert : an existing key keeps its position, its value is replaced
MapInsert(m, k, v) ==
    IF \E i \in 1..Len(m) : m[i][1] = k
    THEN [i \in 1..Len(m) |-> IF m[i][1] = k THEN <<k, v>> ELSE m[i]]
    ELSE Append(m, <<k, v>>)

\* collect() of an iterator of pairs into an OrderedHashMap
RECURSIVE CollectOrdered(_)
CollectOrdered(pairs) ==
    IF pairs = <<>> THEN <<>>
    ELSE LET n == Len(pairs)
         IN MapInsert(CollectOrdered(SubSeq(pairs, 1, n - 1)), pairs[n][1], pairs[n][2])

\* collect() of an iterator of pairs into the dependency map: a later pair
\* with the same key replaces the earlier one
RECURSIVE CollectMap(_)
CollectMap(pairs) ==
    IF pairs = <<>> THEN <<>>
    ELSE LET n == Len(pairs)
         IN (pairs[n][1] :> pairs[n][2]) @@ CollectMap(SubSeq(pairs, 1, n - 1))

MapKeys(m) == {m[i][1] : i \in 1..Len(m)}

MapGet(m, k) == Unwrap(Find(m, {i \in 1..Len(m) : m[i][1] = k}))[2]

----------------------------------------------------------------------------
(* str ordering: byte-wise lexicographic comparison *)

Bytes(s) ==
    CASE s = "starknet-contract" ->
             <<115, 116, 97, 114, 107, 110, 101, 116, 45, 99, 111, 110, 116, 114, 97, 99, 116>>
      [] s = "lib" -> <<108, 105, 98>>
      [] s = "hello" -> <<104, 101, 108, 108, 111>>
      [] s = "custom" -> <<99, 117, 115, 116, 111, 109>>
      [] s = "test" -> <<116, 101, 115, 116>>

LexLess(a, b) ==
    \E i \in 1..(Len(a) + 1) :
        /\ \A j \in 1..(i - 1) : j <= Len(b) /\ a[j] = b[j]
        /\ \/ i = Len(a) + 1 /\ Len(b) >= i
           \/ i <= Len(a) /\ i <= Len(b) /\ a[i] < b[i]

StrLess(s, t) == LexLess(Bytes(s), Bytes(t))

----------------------------------------------------------------------------
(* main.rs:41-55 : selection of the compilation unit *)

\* the key closure of min_by_key, main.rs:45-49
unit_key(unit) ==
    LET name == unit.target.name
    IN CASE name = "starknet-contract" -> <<0, name>>
         [] name = "lib" -> <<1, name>>
         [] OTHER -> <<2, name>>

\* Ord on (i32, &str)
KeyLess(k1, k2) == k1[1] < k2[1] \/ (k1[1] = k2[1] /\ StrLess(k1[2], k2[2]))

\* Iterator::min_by_key : of several equally minimal elements the first is returned
min_by_key(s) ==
    IF s = <<>> THEN None
    ELSE LET best[i \in 1..Len(s)] ==
                 IF i = 1 THEN s[1]
                 ELSE IF KeyLess(unit_key(s[i]), unit_key(best[i - 1])) THEN s[i] ELSE best[i - 1]
         IN Some(best[Len(s)])

\* mutant: the owner filter of main.rs:44 dropped
unit_candidates_unfiltered(md, pkg) == md.compilation_units

\* main.rs:44
unit_candidates(md, pkg) == SelectSeq(md.compilation_units, LAMBDA unit : unit.package = pkg.id)

select_compilation_unit(md, pkg) == min_by_key(unit_candidates(md, pkg))

----------------------------------------------------------------------------
(* Configuration value parsers: main.rs:222-262, utils.rs:6-52 *)

\* the compiler's edition identifiers, as serde names and as enum values
KnownEditions == {"2023_01", "2024_07"}

EditionOf(e) == IF e = "2023_01" THEN "V2023_01" ELSE "V2024_07"

DefaultEdition == "V2023_01"

\* serde_json::from_value(e.into()) ... .ok(), main.rs:227-230
parse_edition(e) == IF e \in KnownEditions THEN Some(EditionOf(e)) ELSE None

\* main.rs:223-233
get_edition(package) ==
    LET declared == IF IsSome(package) THEN Unwrap(package).edition ELSE None
        parsed == IF IsSome(declared) THEN parse_edition(Unwrap(declared)) ELSE None
    IN IF IsSome(parsed) THEN Unwrap(parsed) ELSE DefaultEdition

\* utils.rs:7-17
scarb_package_edition(package) ==
    LET declared == IF IsSome(package) THEN Unwrap(package).edition ELSE None
        parsed == IF IsSome(declared) THEN parse_edition(Unwrap(declared)) ELSE None
    IN IF IsSome(parsed) THEN Unwrap(parsed) ELSE DefaultEdition

\* serde_json::to_value of one scarb_metadata::Cfg: a bare name is a JSON
\* string, a key/value pair a JSON array of two strings; any other shape is
\* rendered as a JSON object
cfg_to_value(c) ==
    CASE c.shape = "Name" -> [json |-> "string", items |-> <<c.key>>]
      [] c.shape = "KV" -> [json |-> "array", items |-> <<c.key, c.value>>]
      [] OTHER -> [json |-> "object", items |-> <<c.key>>]

\* serde_json::from_value into the compiler's Cfg: a string or a two-element array
cfg_from_value(v) ==
    CASE v.json = "string" -> Some([key |-> v.items[1], value |-> None])
      [] v.json = "array" /\ Len(v.items) = 2 ->
             Some([key |-> v.items[1], value |-> Some(v.items[2])])
      [] OTHER -> None

\* mutant: entries that do not convert are skipped
scarb_cfg_set_to_cairo_lossy(cfg_set) ==
    LET decoded == [i \in 1..Len(cfg_set) |-> cfg_from_value(cfg_to_value(cfg_set[i]))]
    IN Some({Unwrap(decoded[i]) : i \in {k \in 1..Len(cfg_set) : IsSome(decoded[k])}})

\* main.rs:239-249, utils.rs:23-37 : Option<CfgSet>
scarb_cfg_set_to_cairo(cfg_set) ==
    LET decoded == [i \in 1..Len(cfg_set) |-> cfg_from_value(cfg_to_value(cfg_set[i]))]
    IN IF \A i \in 1..Len(cfg_set) : IsSome(decoded[i])
       THEN Some({Unwrap(decoded[i]) : i \in 1..Len(cfg_set)})
       ELSE None

\* mutant: both flags test the same name
get_experimental_features_swapped(package) ==
    LET contains(feature) ==
            IF ~IsSome(package) THEN FALSE
            ELSE feature \in Range(Unwrap(package).experimental_features)
    IN [negative_impls |-> contains("negative_impls"), coupons |-> contains("negative_impls")]

\* main.rs:252-262 : Vec::contains
get_experimental_features(package) ==
    LET contains(feature) ==
            IF ~IsSome(package) THEN FALSE
            ELSE feature \in Range(Unwrap(package).experimental_features)
    IN [negative_impls |-> contains("negative_impls"), coupons |-> contains("coupons")]

\* utils.rs:40-52 : iter().any
scarb_package_experimental_features(package) ==
    LET contains(feature) ==
            IF ~IsSome(package) THEN FALSE
            ELSE \E i \in 1..Len(Unwrap(package).experimental_features) :
                     Unwrap(package).experimental_features[i] = feature
    IN [negative_impls |-> contains("negative_impls"), coupons |-> contains("coupons")]

----------------------------------------------------------------------------
(* Crate roots and crate settings: main.rs:79-220 *)

\* mutant: the standard library is kept
not_core_off(c) == TRUE

\* the filter closure |c| c.name != "core"
not_core(c) == c.name /= "core"

\* CompilationUnitComponentMetadata::source_root : the directory of source_path
source_root(c) == SubSeq(c.source_path, 1, Len(c.source_path) - 1)

\* main.rs:146-148 and 198-200
dependency_settings(c) == [discriminator |-> c.discriminator]

\* mutant: crate roots collected without the filter of main.rs:99
get_crate_roots_all(unit) ==
    CollectOrdered([i \in 1..Len(unit.components) |->
                       <<unit.components[i].name, source_root(unit.components[i])>>])

\* main.rs:93-102
get_crate_roots(unit) ==
    LET kept == SelectSeq(unit.components, not_core)
    IN CollectOrdered([i \in 1..Len(kept) |-> <<kept[i].name, source_root(kept[i])>>])

\* mutant: the discriminator of main.rs:147 is not carried over
global_dependencies_bare(unit) ==
    LET kept == SelectSeq(unit.components, LAMBDA c : c.name /= "core")
    IN CollectMap([i \in 1..Len(kept) |-> <<kept[i].name, [discriminator |-> None]>>])

\* main.rs:139-151
global_dependencies(unit) ==
    LET kept == SelectSeq(unit.components, not_core)
    IN CollectMap([i \in 1..Len(kept) |-> <<kept[i].name, dependency_settings(kept[i])>>])

\* main.rs:129-163
get_global_crate_settings(unit, package) ==
    [name |-> None,
     edition |-> get_edition(Some(package)),
     version |-> Some(package.version),
     cfg_set |-> scarb_cfg_set_to_cairo(unit.cfg),
     dependencies |-> global_dependencies(unit),
     experimental_features |-> get_experimental_features(Some(package))]

\* mutant: references resolved without the filter of main.rs:192
resolve_dependency_any(unit, id) ==
    LET found == Find(unit.components,
                      {i \in 1..Len(unit.components) : unit.components[i].id = Some(id)})
    IN IF IsSome(found)
       THEN Some(<<Unwrap(found).name, dependency_settings(Unwrap(found))>>)
       ELSE None

\* main.rs:190-206 : the first non-core component of the unit whose id is `id`
resolve_dependency(unit, id) ==
    LET kept == SelectSeq(unit.components, not_core)
        found == Find(kept, {i \in 1..Len(kept) : IsSome(kept[i].id) /\ Unwrap(kept[i].id) = id})
    IN IF IsSome(found)
       THEN Some(<<Unwrap(found).name, dependency_settings(Unwrap(found))>>)
       ELSE None

\* mutant: references resolved against the other components only
component_dependencies_others(component, unit) ==
    LET others == [unit EXCEPT !.components = SelectSeq(unit.components, LAMBDA c : c /= component)]
        declared == IF IsSome(component.dependencies) THEN Unwrap(component.dependencies) ELSE <<>>
        resolved == [i \in 1..Len(declared) |-> resolve_dependency(others, declared[i])]
        hits == SelectSeq(resolved, IsSome)
    IN CollectMap([i \in 1..Len(hits) |-> Unwrap(hits[i])])

\* main.rs:184-208
component_dependencies(component, unit) ==
    LET declared == IF IsSome(component.dependencies) THEN Unwrap(component.dependencies) ELSE <<>>
        resolved == [i \in 1..Len(declared) |-> resolve_dependency(unit, declared[i])]
        hits == SelectSeq(resolved, IsSome)
    IN CollectMap([i \in 1..Len(hits) |-> Unwrap(hits[i])])

\* mutant: the owning package is not looked up by id
find_package_first(md, component) == Find(md.packages, 1..Len(md.packages))

\* main.rs:170-173
find_package(md, component) ==
    Find(md.packages, {i \in 1..Len(md.packages) : md.packages[i].id = component.package})

\* main.rs:165-220
get_crate_settings_for_component(component, unit, md) ==
    LET package == find_package(md, component)
    IN [name |-> Some(component.name),
        edition |-> get_edition(package),
        version |-> IF IsSome(package) THEN Some(Unwrap(package).version) ELSE None,
        cfg_set |-> IF IsSome(component.cfg)
                    THEN scarb_cfg_set_to_cairo(Unwrap(component.cfg))
                    ELSE None,
        dependencies |-> component_dependencies(component, unit),
        experimental_features |-> get_experimental_features(package)]

\* main.rs:111-121
get_override_map(md, unit) ==
    LET kept == SelectSeq(unit.components, not_core)
    IN CollectOrdered([i \in 1..Len(kept) |->
                          <<kept[i].name, get_crate_settings_for_component(kept[i], unit, md)>>])

\* main.rs:104-127
get_crates_config(md, unit, package) ==
    [global |-> get_global_crate_settings(unit, package),
     override_map |-> get_override_map(md, unit)]

\* main.rs:79-91
get_project_config(md, unit, package) ==
    [crate_roots |-> get_crate_roots(unit),
     crates_config |-> get_crates_config(md, unit, package)]

----------------------------------------------------------------------------
(* main.rs:32-77 *)

\* toml::to_string_pretty followed by push('\n'), main.rs:59-60
render_toml(config) == [document |-> config, trailing_newline |-> TRUE]

\* main.rs:62-69
output_path(md, arg) ==
    IF IsSome(arg) THEN Unwrap(arg) ELSE Append(md.workspace.root, "cairo_project.toml")

\* main.rs:41-55, a unit is found
SelectUnit ==
    /\ pc = "select"
    /\ IsSome(select_compilation_unit(metadata, main_package))
    /\ compilation_unit' = select_compilation_unit(metadata, main_package)
    /\ pc' = "configure"
    /\ UNCHANGED <<metadata, main_package, output_arg, project_config,
                   cairo_project_toml, stdout, files, error>>

\* main.rs:50-55, ok_or_else(...)? returns the error
SelectUnitFail ==
    /\ pc = "select"
    /\ ~IsSome(select_compilation_unit(metadata, main_package))
    /\ error' = Some([message |-> "could not find a compilation unit suitable for ejection for package",
                      package |-> main_package.id])
    /\ pc' = "failed"
    /\ UNCHANGED <<metadata, main_package, output_arg, compilation_unit, project_config,
                   cairo_project_toml, stdout, files>>

\* main.rs:57
BuildConfig ==
    /\ pc = "configure"
    /\ project_config' = Some(get_project_config(metadata, Unwrap(compilation_unit), main_package))
    /\ pc' = "serialize"
    /\ UNCHANGED <<metadata, main_package, output_arg, compilation_unit,
                   cairo_project_toml, stdout, files, error>>

\* main.rs:59-60
Serialize ==
    /\ pc = "serialize"
    /\ cairo_project_toml' = Some(render_toml(Unwrap(project_config)))
    /\ pc' = "write"
    /\ UNCHANGED <<metadata, main_package, output_arg, compilation_unit,
                   project_config, stdout, files, error>>

\* main.rs:70-71
WriteStdout ==
    /\ pc = "write"
    /\ output_path(metadata, output_arg) = <<"-">>
    /\ stdout' = Append(stdout, Unwrap(cairo_project_toml))
    /\ pc' = "done"
    /\ UNCHANGED <<metadata, main_package, output_arg, compilation_unit,
                   project_config, cairo_project_toml, files, error>>

\* main.rs:72-76, fs::write succeeds
WriteFile ==
    /\ pc = "write"
    /\ output_path(metadata, output_arg) /= <<"-">>
    /\ files' = MapInsert(files, output_path(metadata, output_arg), Unwrap(cairo_project_toml))
    /\ pc' = "done"
    /\ UNCHANGED <<metadata, main_package, output_arg, compilation_unit,
                   project_config, cairo_project_toml, stdout, error>>

\* main.rs:73, fs::write fails and ? returns the io error
WriteFileFail ==
    /\ pc = "write"
    /\ output_path(metadata, output_arg) /= <<"-">>
    /\ error' = Some([message |-> "io error", package |-> main_package.id])
    /\ pc' = "failed"
    /\ UNCHANGED <<metadata, main_package, output_arg, compilation_unit,
                   project_config, cairo_project_toml, stdout, files>>

Next ==
    \/ SelectUnit
    \/ SelectUnitFail
    \/ BuildConfig
    \/ Serialize
    \/ WriteStdout
    \/ WriteFile
    \/ WriteFileFail

----------------------------------------------------------------------------
(* Snapshots the runs start from.  main.rs:33-39 (argument parsing, the     *)
(* metadata query and the package filter) are done: main_package is a      *)
(* package of the snapshot.                                                *)

\* A compilation unit's target (scarb_metadata::TargetMetadata) has a kind
\* ("lib", "starknet-contract", "test", ...) and a name, by default the name
\* of its package.  main.rs:45 reads target.name.
PackageIds == {"p1", "p2"}
TargetKinds == {"starknet-contract", "lib", "custom"}
TargetNames == {"starknet-contract", "lib", "hello"}
ComponentNames == {"core", "a", "b"}
ComponentIds == {"i1", "i2"}
Discriminators == {"d1"}
Versions == {"1.0.0", "2.0.0"}
EditionStrings == {"2023_01", "2024_07", "bogus"}
FeatureNames == {"negative_impls", "coupons", "associated_item_constraints", "unknown"}
CfgEntries == {[shape |-> "Name", key |-> "test", value |-> ""],
               [shape |-> "KV", key |-> "target", value |-> "starknet"],
               [shape |-> "Other", key |-> "x", value |-> ""]}
OutputArgs == {None, Some(<<"-">>), Some(<<"out", "cairo_project.toml">>)}

OptionOf(S) == {None} \cup {Some(x) : x \in S}

PlainPackage(id) ==
    [id |-> id, name |-> id, version |-> "1.0.0", edition |-> None,
     experimental_features |-> <<>>]

SourcePath(name) == <<name, "src", "lib.cairo">>

PlainComponent(name) ==
    [name |-> name, package |-> "p1", discriminator |-> None, cfg |-> None,
     dependencies |-> None, id |-> None, source_path |-> SourcePath(name)]

PlainUnit(components) ==
    [package |-> "p1", target |-> [kind |-> "lib", name |-> "hello"],
     components |-> components, cfg |-> <<>>]

Snapshot(packages, units) ==
    [packages |-> packages, compilation_units |-> units, workspace |-> [root |-> <<"ws">>]]

\* component ids identify the components of a unit: those present are
\* pairwise distinct
UniqueIds(components) ==
    \A i, j \in 1..Len(components) :
        (i /= j /\ IsSome(components[i].id)) => components[i].id /= components[j].id

\* package ids identify the packages of a snapshot
UniquePackageIds(packages) ==
    \A i, j \in 1..Len(packages) : i /= j => packages[i].id /= packages[j].id

Start ==
    /\ pc = "select"
    /\ compilation_unit = None
    /\ project_config = None
    /\ cairo_project_toml = None
    /\ stdout = <<>>
    /\ files = <<>>
    /\ error = None

\* a hello-world snapshot under every output argument, with and without its unit
InitBasic ==
    /\ main_package = PlainPackage("p1")
    /\ \E units \in {<<>>, <<PlainUnit(<<PlainComponent("core"), PlainComponent("a")>>)>>} :
           metadata = Snapshot(<<PlainPackage("p1")>>, units)
    /\ output_arg \in OutputArgs
    /\ Start

\* snapshots varying in their compilation units
SelectUnits ==
    [package : PackageIds,
     target : [kind : TargetKinds, name : TargetNames],
     components : {<<PlainComponent("core"), PlainComponent("a")>>},
     cfg : {<<>>}]

InitSelect ==
    /\ main_package = PlainPackage("p1")
    /\ \E units \in SeqsUpTo(SelectUnits, MaxUnits) :
           metadata = Snapshot(<<PlainPackage("p1"), PlainPackage("p2")>>, units)
    /\ output_arg \in OutputArgs
    /\ Start

SpecSelect == (InitSelect \/ InitBasic) /\ [][Next]_vars

\* snapshots varying in the components of the selected unit: their names,
\* ids and discriminators, and the dependency references of one of them (the
\* settings of a component read no other component's references)
DepsComponents ==
    {[name |-> n, package |-> "p1", discriminator |-> d, cfg |-> None,
      dependencies |-> None, id |-> i, source_path |-> SourcePath(n)] :
        n \in ComponentNames, d \in OptionOf(Discriminators), i \in OptionOf(ComponentIds)}

WithDependencies(components, k, deps) ==
    IF k = 0 THEN components ELSE [components EXCEPT ![k].dependencies = deps]

InitDeps ==
    /\ main_package = PlainPackage("p1")
    /\ \E components \in SeqsUpTo(DepsComponents, MaxComponents) :
           /\ UniqueIds(components)
           /\ \E k \in 0..Len(components), deps \in OptionOf(SeqsUpTo(ComponentIds, MaxDeps)) :
                  metadata = Snapshot(<<PlainPackage("p1")>>,
                                      <<PlainUnit(WithDependencies(components, k, deps))>>)
    /\ output_arg = None
    /\ Start

SpecDeps == (InitDeps \/ InitBasic) /\ [][Next]_vars

\* snapshots varying in their packages (ids and versions) and in the owning
\* package of each component
AllPackageIds == PackageIds \cup {"p3"}

VersionPackages ==
    {[id |-> i, name |-> i, version |-> v, edition |-> None, experimental_features |-> <<>>] :
        i \in AllPackageIds, v \in Versions}

OwnedComponents(names, owners) ==
    {[name |-> n, package |-> p, discriminator |-> None, cfg |-> None,
      dependencies |-> None, id |-> None, source_path |-> SourcePath(n)] :
        n \in names, p \in owners}

UnitOf(package, components, cfg) ==
    [package |-> package.id, target |-> [kind |-> "lib", name |-> "hello"],
     components |-> components, cfg |-> cfg]

InitVersions ==
    /\ \E packages \in SeqsUpTo(VersionPackages, MaxPackages) :
           /\ UniquePackageIds(packages)
           /\ main_package \in Range(packages)
           /\ \E components \in SeqsUpTo(OwnedComponents({"core", "a"}, AllPackageIds), MaxComponents) :
                  metadata = Snapshot(packages, <<UnitOf(main_package, components, <<>>)>>)
    /\ output_arg = None
    /\ Start

SpecVersions == (InitVersions \/ InitBasic) /\ [][Next]_vars

\* snapshots varying in the experimental features the main package declares;
\* components are owned by it or by a package outside the snapshot
FeaturePackages ==
    {[id |-> "p1", name |-> "p1", version |-> "1.0.0", edition |-> None,
      experimental_features |-> f] : f \in SeqsUpTo(FeatureNames, MaxFeatures)}

InitFeatures ==
    /\ main_package \in FeaturePackages
    /\ \E components \in SeqsUpTo(OwnedComponents({"core", "a", "b"}, {"p1", "p3"}), MaxComponents) :
           metadata = Snapshot(<<main_package>>, <<UnitOf(main_package, components, <<>>)>>)
    /\ output_arg = None
    /\ Start

SpecFeatures == (InitFeatures \/ InitBasic) /\ [][Next]_vars

\* snapshots varying in the edition the main package declares and in one cfg
\* list: the unit's (k = 0) or that of the k-th component
EditionPackages ==
    {[id |-> "p1", name |-> "p1", version |-> "1.0.0", edition |-> e,
      experimental_features |-> <<>>] : e \in OptionOf(EditionStrings)}

WithCfg(components, k, cfg) ==
    IF k = 0 THEN components ELSE [components EXCEPT ![k].cfg = Some(cfg)]

InitCfg ==
    /\ main_package \in EditionPackages
    /\ \E components \in SeqsUpTo(OwnedComponents({"core", "a"}, {"p1", "p3"}), MaxComponents) :
           \E k \in 0..Len(components), cfg \in SeqsUpTo(CfgEntries, MaxCfg) :
               metadata = Snapshot(<<main_package>>,
                                   <<UnitOf(main_package, WithCfg(components, k, cfg),
                                            IF k = 0 THEN cfg ELSE <<>>)>>)
    /\ output_arg = None
    /\ Start

SpecCfg == (InitCfg \/ InitBasic) /\ [][Next]_vars

----------------------------------------------------------------------------
(* Vocabulary of the properties *)

Built == IsSome(project_config)
TheUnit == Unwrap(compilation_unit)
TheConfig == Unwrap(project_config)
CrateRoots == TheConfig.crate_roots
OverrideMap == TheConfig.crates_config.override_map
GlobalSettings == TheConfig.crates_config.global

\* positions of the components of the selected unit other than "core"
Kept == {i \in 1..Len(TheUnit.components) : TheUnit.components[i].name /= "core"}
KeptNames == {TheUnit.components[i].name : i \in Kept}

\* the last kept component carrying a name: the one whose entry a map keeps
LastNamed(n) ==
    CHOOSE i \in Kept :
        /\ TheUnit.components[i].name = n
        /\ \A j \in Kept : TheUnit.components[j].name = n => j <= i

\* the units of the snapshot owned by the selected package
OwnedUnits == {i \in 1..Len(metadata.compilation_units) :
                  metadata.compilation_units[i].package = main_package.id}

----------------------------------------------------------------------------
(* C1 *)

KindRank(kind) ==
    IF kind = "starknet-contract" THEN 0 ELSE IF kind = "lib" THEN 1 ELSE 2

KindKeyLess(u, v) ==
    \/ KindRank(u.target.kind) < KindRank(v.target.kind)
    \/ /\ KindRank(u.target.kind) = KindRank(v.target.kind)
       /\ StrLess(u.target.kind, v.target.kind)

\* C1: whenever some unit is owned by the selected package, the selector
\* returns a unit owned by that package whose key (rank of the target kind,
\* target kind) is minimal among the owned units, starknet-contract ranking
\* 0, lib 1 and any other kind 2; so a starknet-contract unit beats a lib
\* unit whatever their order in the snapshot.
C1_SelectsMinimalTargetKind ==
    (pc /= "select" /\ OwnedUnits /= {}) =>
        /\ IsSome(compilation_unit)
        /\ TheUnit.package = main_package.id
        /\ \A i \in OwnedUnits : ~KindKeyLess(metadata.compilation_units[i], TheUnit)

----------------------------------------------------------------------------
(* C2 *)

\* C2: when no unit of the snapshot is owned by the selected package the run
\* ends in the fatal error naming the package, and no project configuration
\* is built, rendered, printed or written.
C2_NoUnitIsFatal ==
    OwnedUnits = {} =>
        /\ pc \in {"select", "failed"}
        /\ pc = "failed" =>
               /\ IsSome(error)
               /\ Unwrap(error).package = main_package.id
               /\ Unwrap(error).message =
                      "could not find a compilation unit suitable for ejection for package"
        /\ compilation_unit = None
        /\ project_config = None
        /\ cairo_project_toml = None
        /\ stdout = <<>>
        /\ files = <<>>

C2_Witness ==
    /\ pc = "failed"
    /\ OwnedUnits = {}
    /\ metadata.compilation_units /= <<>>

----------------------------------------------------------------------------
(* C3 *)

\* C3: "core" is never a key of crate_roots, of the override map, of the
\* global dependency mapping or of the dependency mapping of any override.
C3_CoreNeverAKey ==
    Built =>
        /\ "core" \notin MapKeys(CrateRoots)
        /\ "core" \notin MapKeys(OverrideMap)
        /\ "core" \notin DOMAIN GlobalSettings.dependencies
        /\ \A i \in 1..Len(OverrideMap) : "core" \notin DOMAIN OverrideMap[i][2].dependencies

\* a unit with a "core" component that another component declares as a dependency
C3_Witness ==
    /\ Built
    /\ \E i, j \in 1..Len(TheUnit.components) :
           /\ TheUnit.components[i].name = "core"
           /\ IsSome(TheUnit.components[i].id)
           /\ j \in Kept
           /\ IsSome(TheUnit.components[j].dependencies)
           /\ Unwrap(TheUnit.components[i].id) \in Range(Unwrap(TheUnit.components[j].dependencies))

----------------------------------------------------------------------------
(* C4 *)

\* C4: the keys of crate_roots are the keys of the override map, which are
\* the names of the components other than "core", each name once.
C4_RootsAndOverridesSameKeys ==
    Built =>
        /\ MapKeys(CrateRoots) = MapKeys(OverrideMap)
        /\ MapKeys(OverrideMap) = KeptNames
        /\ Len(OverrideMap) = Cardinality(KeptNames)
        /\ Len(CrateRoots) = Cardinality(KeptNames)

\* a unit with two components sharing a name
C4_Witness ==
    /\ Built
    /\ \E i, j \in Kept : i /= j /\ TheUnit.components[i].name = TheUnit.components[j].name

----------------------------------------------------------------------------
(* C5, C10 : the dependency mapping of an override *)

Component(i) == TheUnit.components[i]

\* the dependency references the i-th component declares
References(i) ==
    IF IsSome(Component(i).dependencies) THEN Unwrap(Component(i).dependencies) ELSE <<>>

\* the kept components a reference of the i-th component points at
Targets(i, r) == {j \in Kept : Component(j).id = Some(References(i)[r])}

\* the kept components the i-th component references
Referenced(i) == UNION {Targets(i, r) : r \in 1..Len(References(i))}

\* the dependency mapping computed for the i-th component; the override map
\* holds it under the component's name when no later component has that name
OverrideDependencies(i) ==
    IF LastNamed(Component(i).name) = i
    THEN MapGet(OverrideMap, Component(i).name).dependencies
    ELSE get_crate_settings_for_component(Component(i), TheUnit, metadata).dependencies

\* the last reference of the i-th component that points at a component named n
LastReferenceTo(i, n) ==
    CHOOSE r \in 1..Len(References(i)) :
        /\ \E j \in Targets(i, r) : Component(j).name = n
        /\ \A q \in 1..Len(References(i)) :
               (\E j \in Targets(i, q) : Component(j).name = n) => q <= r

\* C5: the override dependency mapping of a component C other than "core"
\* has an entry exactly for the names of the components other than "core"
\* whose id is one of C's references, each carrying the discriminator of the
\* referenced component (of the one referenced last, when two referenced
\* components share a name); references to no component or to "core", and a
\* missing reference list, add nothing.
C5_OverrideDependenciesResolve ==
    Built =>
        \A i \in Kept :
            /\ DOMAIN OverrideDependencies(i) = {Component(j).name : j \in Referenced(i)}
            /\ \A n \in DOMAIN OverrideDependencies(i) :
                   \E j \in Targets(i, LastReferenceTo(i, n)) :
                       /\ Component(j).name = n
                       /\ OverrideDependencies(i)[n] = [discriminator |-> Component(j).discriminator]

\* a component with two references, one to "core" and one to another
\* component: only the latter is kept
C5_Witness ==
    /\ Built
    /\ \E i \in Kept, c \in 1..Len(TheUnit.components) :
           /\ Component(c).name = "core"
           /\ IsSome(Component(c).id)
           /\ Len(References(i)) = 2
           /\ Unwrap(Component(c).id) \in Range(References(i))
           /\ Cardinality(DOMAIN OverrideDependencies(i)) = 1
           /\ Referenced(i) /= {}

\* C10 as stated: a reference of C to its own id adds no entry for C to C's
\* override dependency mapping (no other referenced component has C's name)
C10_SelfReferenceAddsNothing ==
    Built =>
        \A i \in Kept :
            (i \in Referenced(i) /\ \A j \in Referenced(i) : j /= i => Component(j).name /= Component(i).name)
                => Component(i).name \notin DOMAIN OverrideDependencies(i)

\* C10 amended: references are matched against every component of the unit
\* other than "core", C itself included: a reference of C to its own id adds
\* the entry C's name -> C's discriminator.
C10_SelfReferenceAddsSelf ==
    Built =>
        \A i \in Kept :
            i \in Referenced(i) =>
                /\ Component(i).name \in DOMAIN OverrideDependencies(i)
                /\ (\A j \in Referenced(i) : j /= i => Component(j).name /= Component(i).name)
                       => OverrideDependencies(i)[Component(i).name] =
                              [discriminator |-> Component(i).discriminator]

C10_Witness ==
    /\ Built
    /\ \E i \in Kept :
           /\ i \in Referenced(i)
           /\ IsSome(Component(i).discriminator)
           /\ LastNamed(Component(i).name) = i

----------------------------------------------------------------------------
(* C7 *)

\* C7: the keys of the global dependency mapping are the names of the
\* components other than "core" (the keys of crate_roots), and each key
\* carries the discriminator of the component of that name (of the last one,
\* when two share it), absent when it has none.
C7_GlobalDependenciesEnumerate ==
    Built =>
        /\ DOMAIN GlobalSettings.dependencies = KeptNames
        /\ DOMAIN GlobalSettings.dependencies = MapKeys(CrateRoots)
        /\ \A n \in KeptNames :
               GlobalSettings.dependencies[n] =
                   [discriminator |-> Component(LastNamed(n)).discriminator]

\* a unit with a component carrying a discriminator and one without
C7_Witness ==
    /\ Built
    /\ \E i, j \in Kept :
           /\ Component(i).name /= Component(j).name
           /\ IsSome(Component(i).discriminator)
           /\ ~IsSome(Component(j).discriminator)

----------------------------------------------------------------------------
(* C6 *)

\* the packages of the snapshot whose id is the owning package of the i-th component
Owners(i) == {k \in 1..Len(metadata.packages) : metadata.packages[k].id = Component(i).package}

\* the settings computed for the i-th component; the override map holds them
\* under the component's name when no later component has that name
OverrideSettings(i) ==
    IF LastNamed(Component(i).name) = i
    THEN MapGet(OverrideMap, Component(i).name)
    ELSE get_crate_settings_for_component(Component(i), TheUnit, metadata)

\* C6: the global record's version is present and is the requested package's;
\* an override's version is present exactly when the snapshot has a package
\* with the component's owning package id, and is then that package's.
C6_Versions ==
    Built =>
        /\ GlobalSettings.version = Some(main_package.version)
        /\ \A i \in Kept :
               /\ IsSome(OverrideSettings(i).version) <=> Owners(i) /= {}
               /\ \A k \in Owners(i) :
                      OverrideSettings(i).version = Some(metadata.packages[k].version)

\* one component owned by a package of another version than the requested
\* one, and one owned by a package outside the snapshot
C6_Witness ==
    /\ Built
    /\ \E i, j \in Kept :
           /\ \E k \in Owners(i) : metadata.packages[k].version /= main_package.version
           /\ Owners(j) = {}
           /\ LastNamed(Component(i).name) = i

----------------------------------------------------------------------------
(* C8 *)

\* a flag of an ExperimentalFeaturesConfig; a flag the record lacks is off
Flag(features, name) == IF name \in DOMAIN features THEN features[name] ELSE FALSE

Declares(package, name) == name \in Range(package.experimental_features)

\* the package of the snapshot owning the i-th component, if any
OwnerOption(i) ==
    IF Owners(i) = {} THEN None ELSE Some(metadata.packages[CHOOSE k \in Owners(i) : TRUE])

\* C8 as stated: the three flags negative_impls, associated_item_constraints
\* and coupons are each on exactly when a package is present and declares
\* the flag's name.
C8_ThreeFlagsFollowDeclarations ==
    Built =>
        /\ \A f \in {"negative_impls", "associated_item_constraints", "coupons"} :
               Flag(GlobalSettings.experimental_features, f) <=> Declares(main_package, f)
        /\ \A i \in Kept :
               \A f \in {"negative_impls", "associated_item_constraints", "coupons"} :
                   Flag(OverrideSettings(i).experimental_features, f) <=>
                       (Owners(i) /= {} /\ Declares(Unwrap(OwnerOption(i)), f))

\* C8 amended: the extractor yields exactly the two flags negative_impls and
\* coupons, each on exactly when a package is present and declares the
\* flag's name; without a package both are off, and every other name
\* (associated_item_constraints included) changes no flag.
C8_TwoFlagsFollowDeclarations ==
    Built =>
        /\ GlobalSettings.experimental_features =
               [negative_impls |-> Declares(main_package, "negative_impls"),
                coupons |-> Declares(main_package, "coupons")]
        /\ scarb_package_experimental_features(Some(main_package)) =
               GlobalSettings.experimental_features
        /\ \A i \in Kept :
               /\ OverrideSettings(i).experimental_features =
                      [negative_impls |->
                           Owners(i) /= {} /\ Declares(Unwrap(OwnerOption(i)), "negative_impls"),
                       coupons |->
                           Owners(i) /= {} /\ Declares(Unwrap(OwnerOption(i)), "coupons")]
               /\ scarb_package_experimental_features(OwnerOption(i)) =
                      OverrideSettings(i).experimental_features

\* the package declares coupons and not negative_impls; one component is
\* owned by it and one by a package outside the snapshot
C8_Witness ==
    /\ Built
    /\ Declares(main_package, "coupons")
    /\ ~Declares(main_package, "negative_impls")
    /\ \E i, j \in Kept : Owners(i) /= {} /\ Owners(j) = {}

----------------------------------------------------------------------------
(* C9 *)

Convertible(cfg) == \A k \in 1..Len(cfg) : cfg[k].shape \in {"Name", "KV"}

NativeCfg(cfg) ==
    {[key |-> cfg[k].key, value |-> IF cfg[k].shape = "KV" THEN Some(cfg[k].value) ELSE None] :
        k \in 1..Len(cfg)}

ExpectedEdition(package) ==
    IF package = None THEN "V2023_01"
    ELSE IF Unwrap(package).edition = None THEN "V2023_01"
    ELSE IF Unwrap(package).edition = Some("2024_07") THEN "V2024_07"
    ELSE "V2023_01"

\* C9: every edition input yields an edition, the default one for an absent
\* package, an absent edition field or an unrecognized string; a cfg list
\* that does not convert leaves the cfg set of its record absent; and once a
\* unit is selected the configuration is built with an override for every
\* component other than "core".
C9_MalformedDataNeverAborts ==
    /\ (IsSome(compilation_unit) /\ pc /= "configure") => Built
    /\ Built =>
           /\ GlobalSettings.edition = ExpectedEdition(Some(main_package))
           /\ scarb_package_edition(Some(main_package)) = GlobalSettings.edition
           /\ GlobalSettings.cfg_set =
                  (IF Convertible(TheUnit.cfg) THEN Some(NativeCfg(TheUnit.cfg)) ELSE None)
           /\ MapKeys(OverrideMap) = KeptNames
           /\ \A i \in Kept :
                  /\ OverrideSettings(i).edition = ExpectedEdition(OwnerOption(i))
                  /\ OverrideSettings(i).cfg_set =
                         (IF IsSome(Component(i).cfg) /\ Convertible(Unwrap(Component(i).cfg))
                          THEN Some(NativeCfg(Unwrap(Component(i).cfg)))
                          ELSE None)

\* an unrecognized edition string, a component whose cfg list does not
\* convert, and the run completed
C9_Witness ==
    /\ pc = "done"
    /\ main_package.edition = Some("bogus")
    /\ \E i \in Kept :
           /\ IsSome(Component(i).cfg)
           /\ ~Convertible(Unwrap(Component(i).cfg))
           /\ OverrideSettings(i).cfg_set = None
           /\ Owners(i) /= {}

====
